---- MODULE Spec2Model ----
(***************************************************************************)
(* A model of the ledger core of the finance tracker (src/taskmanv1.py):   *)
(* the Transaction constructor, the FinanceManager with its in-memory      *)
(* list and its sqlite table, and the aggregation functions.               *)
(*                                                                         *)
(* Text (category, type) is a sequence of character codes, so that         *)
(* str.lower() is a real conversion.  A float is [nan, v]: not-a-number,   *)
(* or the number v.  An amount, as an argument or as the value of a        *)
(* column, is [tag, x]: tag is its Python type and x its value as a float  *)
(* (zero for a value that is no number).  A date is [kind, d, s, us]:      *)
(* None, a datetime.date (day d) or a datetime.datetime (day d, second of  *)
(* the day s, microsecond us).                                             *)
(***************************************************************************)
EXTENDS Integers, Sequences, FiniteSets

VARIABLES transactions, db, last, history, failures

vars == <<transactions, db, last, history, failures>>

\* ------------------------------------------------------------- bounds

\* Most rows the table holds.
MaxRows == 2

\* Most entries of manager.transactions.
MaxMem == 3

\* Largest primary key the table hands out.
MaxId == 3

\* Most statements the storage engine fails in one run.
MaxFailures == 1

\* ------------------------------------------------------------- text

\* The lower-case letter of an upper-case letter (A to Z are the codes 65
\* to 90, a to z the codes 97 to 122); any other character is kept.
lower_char(c) == IF c \in 65 .. 90 THEN c + 32 ELSE c

\* str.lower()
lower(s) == [i \in DOMAIN s |-> lower_char(s[i])]

\* "expense"
expense == << 101, 120, 112, 101, 110, 115, 101 >>

\* "income"
income == << 105, 110, 99, 111, 109, 101 >>

valid_types == {expense, income}

\* ------------------------------------------------------------- floats

Num(v) == [nan |-> FALSE, v |-> v]

NaN == [nan |-> TRUE, v |-> 0]

\* x <= 0: no comparison with not-a-number is true
le_zero(x) == ~x.nan /\ x.v <= 0

\* x + y
fadd(x, y) == IF x.nan \/ y.nan THEN NaN ELSE Num(x.v + y.v)

\* x - y
fsub(x, y) == IF x.nan \/ y.nan THEN NaN ELSE Num(x.v - y.v)

\* ------------------------------------------------------------- inputs

None == [kind |-> "None", d |-> 0, s |-> 0, us |-> 0]

\* The value of a column that holds no value, and None as an amount.
NULL == [tag |-> "NoneType", x |-> Num(0)]

\* "Food"
Food == << 70, 111, 111, 100 >>

\* "food"
food == << 102, 111, 111, 100 >>

\* "Income"
Income == << 73, 110, 99, 111, 109, 101 >>

\* "refund"
refund == << 114, 101, 102, 117, 110, 100 >>

\* A calendar date, what the date picker gives.
a_date == [kind |-> "date", d |-> 2, s |-> 0, us |-> 0]

Args(amount, category, trans_type, date) ==
    [amount |-> amount, category |-> category, type |-> trans_type, date |-> date]

\* The calls of add_transaction: amounts that are an integer, a float,
\* not-a-number, zero, negative and a string; labels that differ in case
\* only; types in lower and mixed case and one that is no type; dates given
\* and left out.
AddInputs ==
    { Args([tag |-> "int", x |-> Num(1)], Food, expense, None),
      Args([tag |-> "float", x |-> Num(2)], food, expense, a_date),
      Args([tag |-> "float", x |-> Num(2)], Food, Income, None),
      Args([tag |-> "int", x |-> Num(1)], food, Income, a_date),
      Args([tag |-> "float", x |-> NaN], Food, expense, a_date),
      Args([tag |-> "int", x |-> Num(0)], Food, expense, None),
      Args([tag |-> "int", x |-> Num(-1)], food, Income, a_date),
      Args([tag |-> "str", x |-> Num(0)], Food, refund, None),
      Args([tag |-> "int", x |-> Num(1)], Food, refund, a_date) }

\* The values datetime.now() returns.
Clock == { [kind |-> "datetime", d |-> 1, s |-> 1, us |-> 7] }

\* The identifiers a caller deletes by: a primary key, or the handle of a
\* row of the table widget.
IdInputs ==
    { [tag |-> "int", v |-> k] : k \in 1 .. MaxId }
        \cup { [tag |-> "str", v |-> 0] }

\* ------------------------------------------------------------- Transaction

AmountError == "Amount must be a positive number"

TypeError == "Transaction type must be either 'expense' or 'income'"

StorageError == "sqlite3.Error"

NoError == "none"

\* isinstance(amount, (int, float))
is_number(amount) == amount.tag \in {"int", "float"}

\* A variant of the amount check that lets zero through.
amount_rejected_negative_only(amount) ==
    ~is_number(amount) \/ (~amount.x.nan /\ amount.x.v < 0)

\* not isinstance(amount, (int, float)) or amount <= 0
amount_rejected(amount) == ~is_number(amount) \/ le_zero(amount.x)

\* transac_type.lower() not in valid_types
type_rejected(transac_type) == lower(transac_type) \notin valid_types

\* A variant of the constructor that stores the type as typed.
Transaction_type_as_typed(amount, category, transac_type, date, now) ==
    IF amount_rejected(amount) THEN [err |-> AmountError]
    ELSE IF type_rejected(transac_type) THEN [err |-> TypeError]
    ELSE [err |-> NoError,
          t |-> [amount |-> amount.x, category |-> category,
                 type |-> transac_type,
                 date |-> IF date = None THEN now ELSE date]]

\* Transaction.__init__: the error raised, or the object built.  The
\* amount is stored as float(amount), the type in lower case.
Transaction(amount, category, transac_type, date, now) ==
    IF amount_rejected(amount) THEN [err |-> AmountError]
    ELSE IF type_rejected(transac_type) THEN [err |-> TypeError]
    ELSE [err |-> NoError,
          t |-> [amount |-> amount.x, category |-> category,
                 type |-> lower(transac_type),
                 date |-> IF date = None THEN now ELSE date]]

\* ------------------------------------------------------------- storage

\* date.strftime('%Y-%m-%d %H:%M:%S'): the day and the second of the day;
\* a calendar date prints midnight, microseconds are not printed.
strftime(date) == << date.d, IF date.kind = "date" THEN 0 ELSE date.s >>

\* datetime.strptime(date, '%Y-%m-%d %H:%M:%S')
strptime(text) == [kind |-> "datetime", d |-> text[1], s |-> text[2], us |-> 0]

\* The value a REAL column holds of a float bound to it: sqlite stores
\* not-a-number as NULL.
REAL(x) == IF x.nan THEN NULL ELSE [tag |-> "float", x |-> x]

\* The primary key sqlite gives a new row of an INTEGER PRIMARY KEY
\* column: one more than the largest in the table.
RECURSIVE max_id(_)
max_id(rows) ==
    IF rows = << >> THEN 0
    ELSE LET m == max_id(Tail(rows)) IN
         IF Head(rows).id > m THEN Head(rows).id ELSE m

\* A variant of the insert that puts the new row first.
INSERT_first(rows, t) ==
    << [id |-> max_id(rows) + 1, amount |-> REAL(t.amount),
        category |-> t.category, type |-> t.type,
        date |-> strftime(t.date)] >> \o rows

\* INSERT INTO transactions (amount, category, type, date) VALUES (?, ?, ?, ?)
INSERT(rows, t) ==
    Append(rows, [id |-> max_id(rows) + 1, amount |-> REAL(t.amount),
                  category |-> t.category, type |-> t.type,
                  date |-> strftime(t.date)])

\* id = ? : an integer parameter equals the key of that value; the text of
\* a widget handle equals no key.
id_matches(id, transaction_id) == transaction_id.tag = "int" /\ transaction_id.v = id

\* DELETE FROM transactions WHERE id = ?
DELETE(rows, transaction_id) ==
    SelectSeq(rows, LAMBDA r : ~id_matches(r.id, transaction_id))

\* The loop of load_transactions: every row of the table, in the order of
\* the table, is made a Transaction and appended; the error of a
\* constructor ends the loop with the rows before it appended.
RECURSIVE load_loop(_, _)
load_loop(acc, rows) ==
    IF rows = << >> THEN [err |-> NoError, transactions |-> acc]
    ELSE LET row == Head(rows)
             r == Transaction(row.amount, row.category, row.type,
                              strptime(row.date), None)
         IN  IF r.err # NoError
             THEN [err |-> r.err, transactions |-> acc]
             ELSE load_loop(Append(acc, r.t), Tail(rows))

\* load_transactions: the rows are appended to self.transactions as it is.
load_transactions(old, rows) == load_loop(old, rows)

\* ------------------------------------------------------------- aggregation

\* sum(t.amount for t in ts if t.type == kind)
RECURSIVE sum_of_type(_, _)
sum_of_type(ts, kind) ==
    IF ts = << >> THEN Num(0)
    ELSE LET rest == sum_of_type(SubSeq(ts, 1, Len(ts) - 1), kind)
             t == ts[Len(ts)]
         IN  IF t.type = kind THEN fadd(rest, t.amount) ELSE rest

get_total_income(ts) == sum_of_type(ts, income)

get_total_expenses(ts) == sum_of_type(ts, expense)

\* A variant of get_balance that adds the two totals.
get_balance_added(ts) == fadd(get_total_income(ts), get_total_expenses(ts))

get_balance(ts) == fsub(get_total_income(ts), get_total_expenses(ts))

\* update_summary_panel: the three all-time numbers it shows.
update_summary_panel(ts) ==
    LET total_income == get_total_income(ts)
        total_expenses == get_total_expenses(ts)
    IN  [total_income |-> total_income, total_expenses |-> total_expenses,
         balance |-> fsub(total_income, total_expenses)]

\* get_transactions_by_category: an empty label is falsy and selects all.
get_transactions_by_category(ts, category) ==
    IF category # << >>
    THEN SelectSeq(ts, LAMBDA t : lower(t.category) = lower(category))
    ELSE ts

empty_dict == [k \in {} |-> Num(0)]

\* d.get(k, 0)
dict_get(d, k) == IF k \in DOMAIN d THEN d[k] ELSE Num(0)

\* d[k] = v
dict_set(d, k, v) == [x \in DOMAIN d \cup {k} |-> IF x = k THEN v ELSE d[x]]

\* A variant of the loop that overwrites an entry instead of adding to it.
category_step_overwrite(acc, t) ==
    IF t.type = expense
    THEN [acc EXCEPT !.expense_categories = dict_set(@, t.category, t.amount)]
    ELSE [acc EXCEPT !.income_categories = dict_set(@, t.category, t.amount)]

\* One turn of the loop of get_category_totals.
category_step(acc, t) ==
    IF t.type = expense
    THEN [acc EXCEPT !.expense_categories =
              dict_set(@, t.category, fadd(dict_get(@, t.category), t.amount))]
    ELSE [acc EXCEPT !.income_categories =
              dict_set(@, t.category, fadd(dict_get(@, t.category), t.amount))]

RECURSIVE category_loop(_, _)
category_loop(acc, ts) ==
    IF ts = << >> THEN acc
    ELSE category_loop(category_step(acc, Head(ts)), Tail(ts))

\* get_category_totals: the two dictionaries, keyed by the label as stored.
get_category_totals(ts) ==
    category_loop([expense_categories |-> empty_dict,
                   income_categories |-> empty_dict], ts)

\* ------------------------------------------------------------- operations

\* The record of the last call: the operation, the error it ended with,
\* the arguments of an add, and of a delete the number of rows the
\* statement deleted (cursor.rowcount).
NoCall ==
    [op |-> "init", err |-> NoError, amount |-> NULL, category |-> << >>,
     type |-> << >>, date |-> None, now |-> None, rowcount |-> 0]

\* The first run: no table yet, the manager's list empty.
Init ==
    /\ transactions = << >>
    /\ db = << >>
    /\ last = NoCall
    /\ history = "adds"
    /\ failures = 0

\* A manager exists: the constructor of the last run did not raise.
running == ~(last.op = "init" /\ last.err # NoError)

\* FinanceManager(): a new run, a new manager over the same table; its
\* list starts empty and is loaded from the table.  (A run that made no
\* call leaves nothing a new run could differ in.)
init_database ==
    LET loaded == load_transactions(<< >>, db)
    IN  /\ last.op # "init"
        /\ transactions' = loaded.transactions
        /\ db' = db
        /\ last' = [NoCall EXCEPT !.err = loaded.err]
        /\ history' = "adds"
        /\ failures' = failures

\* add_transaction: the object is built, appended, then inserted; a
\* ValueError of the constructor is caught and nothing is changed; an error
\* of the insert leaves the function with the object appended.
add_transaction(amount, category, trans_type, date, now, stored) ==
    LET r == Transaction(amount, category, trans_type, date, now)
        call == [NoCall EXCEPT !.op = "add", !.err = r.err, !.amount = amount,
                               !.category = category, !.type = trans_type,
                               !.date = date,
                               !.now = IF date = None THEN now ELSE None]
    IN  /\ running
        /\ Len(transactions) < MaxMem
        /\ Len(db) < MaxRows
        /\ max_id(db) < MaxId
        /\ IF r.err # NoError
           THEN /\ UNCHANGED <<transactions, db, failures>>
                /\ last' = call
                /\ history' = "other"
           ELSE /\ transactions' = Append(transactions, r.t)
                /\ IF stored
                   THEN /\ db' = INSERT(db, r.t)
                        /\ last' = call
                        /\ history' = IF history = "adds" THEN "adds" ELSE "other"
                        /\ failures' = failures
                   ELSE /\ failures < MaxFailures
                        /\ db' = db
                        /\ last' = [call EXCEPT !.err = StorageError]
                        /\ history' = "other"
                        /\ failures' = failures + 1

\* delete_transaction: the row is deleted, then load_transactions runs on
\* the list as it is; an error of the delete leaves the function before.
delete_transaction(transaction_id, stored) ==
    LET call == [NoCall EXCEPT !.op = "delete"]
        rows == DELETE(db, transaction_id)
        loaded == load_transactions(transactions, rows)
    IN  /\ running
        /\ Len(transactions) + Len(db) <= MaxMem
        /\ IF stored
           THEN /\ db' = rows
                /\ transactions' = loaded.transactions
                /\ last' = [call EXCEPT !.err = loaded.err,
                                        !.rowcount = Len(db) - Len(rows)]
                /\ history' = IF history = "adds" THEN "adds_delete" ELSE "other"
                /\ failures' = failures
           ELSE /\ failures < MaxFailures
                /\ UNCHANGED <<transactions, db>>
                /\ last' = [call EXCEPT !.err = StorageError]
                /\ history' = "other"
                /\ failures' = failures + 1

Add ==
    \E a \in AddInputs, now \in Clock, stored \in BOOLEAN :
        add_transaction(a.amount, a.category, a.type, a.date, now, stored)

Delete ==
    \E transaction_id \in IdInputs, stored \in BOOLEAN :
        delete_transaction(transaction_id, stored)

Next == Add \/ Delete \/ init_database

Spec == Init /\ [][Next]_vars

\* ------------------------------------------------------------- properties

\* The lower-case form of a text, as the properties read it.
Lowercase(s) == [i \in DOMAIN s |-> IF s[i] >= 65 /\ s[i] <= 90 THEN s[i] + 32 ELSE s[i]]

\* A date at the precision of the table: a datetime of whole seconds.
WholeSeconds(date) == [kind |-> "datetime", d |-> date.d, s |-> date.s, us |-> 0]

\* The entry a row of the table stands for.
StoredEntry(row) ==
    [amount |-> row.amount.x, category |-> row.category, type |-> row.type,
     date |-> [kind |-> "datetime", d |-> row.date[1], s |-> row.date[2], us |-> 0]]

\* An amount that is zero, negative, or no number at all.
BadAmount(amount) ==
    \/ amount.tag \notin {"int", "float"}
    \/ (~amount.x.nan /\ amount.x.v <= 0)

\* The row is the one an insert of the entry writes.
IsRowOf(row, t) ==
    /\ row.amount = (IF t.amount.nan THEN NULL ELSE [tag |-> "float", x |-> t.amount])
    /\ row.category = t.category
    /\ row.type = t.type
    /\ row.date = << t.date.d, t.date.s >>

IsPrefix(s, t) == Len(s) <= Len(t) /\ SubSeq(t, 1, Len(s)) = s

\* The sum of the amounts of the entries of ts at the indices S.
RECURSIVE SumAmounts(_, _)
SumAmounts(ts, S) ==
    IF S = {} THEN Num(0)
    ELSE LET i == CHOOSE i \in S : TRUE
         IN  fadd(ts[i].amount, SumAmounts(ts, S \ {i}))

\* The sum of the values of a dictionary over the keys K.
RECURSIVE SumValues(_, _)
SumValues(d, K) ==
    IF K = {} THEN Num(0)
    ELSE LET k == CHOOSE k \in K : TRUE
         IN  fadd(d[k], SumValues(d, K \ {k}))

OfType(ts, kind) == {i \in DOMAIN ts : ts[i].type = kind}

OfTypeAndCategory(ts, kind, category) ==
    {i \in DOMAIN ts : ts[i].type = kind /\ ts[i].category = category}

\* Every amount of the list and of the table is a number.
NumbersOnly ==
    /\ \A i \in DOMAIN transactions : ~transactions[i].amount.nan
    /\ \A i \in DOMAIN db : db[i].amount # NULL

\* C1: after successful adds only (here: of amounts that are numbers), a
\* delete that raises no error leaves the in-memory list equal to the rows
\* of the table: the same length, the same entries in the same order, none
\* twice.
C1_DeleteRebuildsFromStorage ==
    (/\ last.op = "delete" /\ last.err = NoError /\ history = "adds_delete"
     /\ NumbersOnly)
        => /\ Len(transactions) = Len(db)
           /\ \A i \in DOMAIN db : transactions[i] = StoredEntry(db[i])

\* C2: on a ledger whose amounts are all numbers, a delete whose
\* identifier matches no row raises no error, removes no row and leaves the
\* in-memory list, and so the totals, as they were.
C2_DeleteOfAbsentIdChangesNothing ==
    [][(/\ last'.op = "delete" /\ last'.err # StorageError /\ last'.rowcount = 0
        /\ NumbersOnly)
          => /\ last'.err = NoError
             /\ db' = db
             /\ transactions' = transactions
             /\ get_total_income(transactions') = get_total_income(transactions)
             /\ get_total_expenses(transactions') = get_total_expenses(transactions)
             /\ get_balance(transactions') = get_balance(transactions)]_vars

\* C3: for an amount that is zero, negative or no number the constructor
\* fails with the amount error, and add_transaction with such an amount
\* reports the failure and changes neither the list nor the table.
C3_BadAmountRejectedLedgerUnchanged ==
    [][/\ \A a \in AddInputs, now \in Clock :
            BadAmount(a.amount)
                => Transaction(a.amount, a.category, a.type, a.date, now).err
                       = AmountError
       /\ (last'.op = "add" /\ BadAmount(last'.amount))
            => /\ last'.err = AmountError
               /\ transactions' = transactions
               /\ db' = db]_vars

\* A rejected add of an amount that is no number, on a ledger that holds
\* entries.
C3_Witness ==
    /\ last.op = "add"
    /\ last.err = AmountError
    /\ last.amount.tag = "str"
    /\ transactions # << >>
    /\ db # << >>

\* C4: with a valid amount, a type whose lower-case form is neither
\* "expense" nor "income" is rejected with the type error, which is not the
\* amount error; any other type is accepted and stored in lower case; every
\* entry of the list and every row of the table has type "expense" or
\* "income".
C4_TypeClosedAndLowercased ==
    /\ TypeError # AmountError
    /\ \A i \in DOMAIN transactions : transactions[i].type \in {expense, income}
    /\ \A i \in DOMAIN db : db[i].type \in {expense, income}
    /\ (last.op = "add" /\ ~BadAmount(last.amount))
         => IF Lowercase(last.type) \in {expense, income}
            THEN /\ last.err \in {NoError, StorageError}
                 /\ transactions[Len(transactions)].type = Lowercase(last.type)
            ELSE last.err = TypeError

\* An add of type "Income" that went through.
C4_Witness ==
    /\ last.op = "add"
    /\ last.type = Income
    /\ last.err = NoError
    /\ db[Len(db)].type = income

\* C5: after an add that succeeded, a fresh load of the table has as many
\* entries as the table has rows, and one of them has the amount, the
\* category, the type in lower case and the date in whole seconds of the
\* add.
C5_AddThenFreshLoadRoundTrips ==
    (last.op = "add" /\ last.err = NoError)
        => LET fresh == load_transactions(<< >>, db)
               date == IF last.date = None THEN last.now ELSE last.date
           IN  /\ fresh.err = NoError
               /\ Len(fresh.transactions) = Len(db)
               /\ \E i \in DOMAIN fresh.transactions :
                      fresh.transactions[i] =
                          [amount |-> last.amount.x, category |-> last.category,
                           type |-> Lowercase(last.type),
                           date |-> WholeSeconds(date)]

\* C6: the balance is the sum of the amounts of the income entries less the
\* sum of the amounts of the expense entries, in the manager and in the
\* summary panel.
C6_BalanceIsIncomeLessExpenses ==
    LET total_income == SumAmounts(transactions, OfType(transactions, income))
        total_expenses == SumAmounts(transactions, OfType(transactions, expense))
    IN  /\ get_total_income(transactions) = total_income
        /\ get_total_expenses(transactions) = total_expenses
        /\ get_balance(transactions) = fsub(total_income, total_expenses)
        /\ update_summary_panel(transactions).balance = get_balance(transactions)

\* After a delete, a list with income and with expenses whose sums differ.
C6_Witness ==
    /\ last.op = "delete"
    /\ OfType(transactions, income) # {}
    /\ OfType(transactions, expense) # {}
    /\ ~get_balance(transactions).nan
    /\ get_balance(transactions).v # 0

\* C7: (on a list of stored entries whose amounts are numbers) labels that
\* differ in case only are one entry of a dictionary of
\* get_category_totals, and the entry of a label is the sum over the
\* entries get_transactions_by_category selects for it, which are the
\* entries whose label equals it ignoring case, in order.
C7_GroupingIgnoresCase ==
    LET totals == get_category_totals(transactions)
        by(c) == get_transactions_by_category(transactions, c)
    IN  (NumbersOnly /\ failures = 0) =>
        /\ \A d \in {totals.expense_categories, totals.income_categories} :
              \A k1, k2 \in DOMAIN d : Lowercase(k1) = Lowercase(k2) => k1 = k2
        /\ \A c \in {Food, food} :
              by(c) = SelectSeq(transactions,
                                LAMBDA t : Lowercase(t.category) = Lowercase(c))
        /\ \A k \in DOMAIN totals.expense_categories :
              totals.expense_categories[k] = SumAmounts(by(k), OfType(by(k), expense))
        /\ \A k \in DOMAIN totals.income_categories :
              totals.income_categories[k] = SumAmounts(by(k), OfType(by(k), income))

\* C8: an add that succeeded appends one entry to the list and one row to
\* the table and leaves the entries and rows before it as they were; no add
\* and no delete changes an entry of the list, and no step changes a row
\* that stays in the table.
C8_AddAppendsOnly ==
    [][/\ (last'.op = "add" /\ last'.err = NoError)
            => /\ Len(transactions') = Len(transactions) + 1
               /\ IsPrefix(transactions, transactions')
               /\ Len(db') = Len(db) + 1
               /\ IsPrefix(db, db')
       /\ last'.op \in {"add", "delete"} => IsPrefix(transactions, transactions')
       /\ \A i \in DOMAIN db, j \in DOMAIN db' :
              db[i].id = db'[j].id => db[i] = db'[j]]_vars

\* An add that went through on a ledger that held an entry and a row.
C8_Witness ==
    /\ last.op = "add"
    /\ last.err = NoError
    /\ Len(transactions) >= 2
    /\ Len(db) >= 2

\* C9: the two dictionaries of get_category_totals split the list by type:
\* an entry of the expense dictionary is the sum of the expense entries of
\* its label, an entry of the income dictionary the sum of the income
\* entries of its label, their values sum to the two totals, and every
\* entry of the list has type "expense" or "income".
C9_CategoryTotalsPartitionByType ==
    LET totals == get_category_totals(transactions)
        E == totals.expense_categories
        I == totals.income_categories
    IN  /\ \A i \in DOMAIN transactions : transactions[i].type \in {expense, income}
        /\ DOMAIN E = {transactions[i].category : i \in OfType(transactions, expense)}
        /\ DOMAIN I = {transactions[i].category : i \in OfType(transactions, income)}
        /\ \A k \in DOMAIN E :
              E[k] = SumAmounts(transactions, OfTypeAndCategory(transactions, expense, k))
        /\ \A k \in DOMAIN I :
              I[k] = SumAmounts(transactions, OfTypeAndCategory(transactions, income, k))
        /\ SumValues(E, DOMAIN E) = get_total_expenses(transactions)
        /\ SumValues(I, DOMAIN I) = get_total_income(transactions)

\* A list with two expense entries of one label and an income entry.
C9_Witness ==
    /\ \E i, j \in OfType(transactions, expense) :
          i # j /\ transactions[i].category = transactions[j].category
    /\ OfType(transactions, income) # {}

\* C10: an add (here: of an amount that is a number) whose insert fails
\* leaves the list as it was, and every entry of the list stands for a row
\* of the table.
C10_MemoryAndStorageTogether ==
    [][NumbersOnly' =>
         /\ (last'.op = "add" /\ last'.err = StorageError)
              => transactions' = transactions
         /\ \A i \in DOMAIN transactions' :
                \E j \in DOMAIN db' : IsRowOf(db'[j], transactions'[i])]_vars

====
